---- MODULE Spec2Model ----
(***************************************************************************)
(* The e-cheque extraction-and-routing pipeline of processing_component.py *)
(* as a state machine.                                                     *)
(*                                                                         *)
(* Text is modelled as a sequence of one-character strings, so that the    *)
(* string operations of the code (upper, strip, split, join, re.sub) are   *)
(* computed character by character.                                        *)
(***************************************************************************)
EXTENDS Integers, Sequences, FiniteSets, TLC

\* ------------------------------------------------------------------------
\* Bounds of the model
\* ------------------------------------------------------------------------

\* Longest payee string the resolver specification looks up.
MaxLen == 4

\* Most documents in one batch.
MaxDocs == 2

\* Most rows in the mapping editor's table.
MaxRows == 3

\* ------------------------------------------------------------------------
\* Text
\* ------------------------------------------------------------------------

\* Python's None where the code expects a string.
None == <<"<None>">>

\* The characters str.split() and str.strip() treat as whitespace.
Whitespace == {" ", "\t", "\n"}

LowerToUpper ==
    ("a" :> "A") @@ ("b" :> "B") @@ ("c" :> "C") @@ ("d" :> "D") @@ ("e" :> "E")
    @@ ("f" :> "F") @@ ("g" :> "G") @@ ("h" :> "H") @@ ("i" :> "I") @@ ("j" :> "J")
    @@ ("k" :> "K") @@ ("l" :> "L") @@ ("m" :> "M") @@ ("n" :> "N") @@ ("o" :> "O")
    @@ ("p" :> "P") @@ ("q" :> "Q") @@ ("r" :> "R") @@ ("s" :> "S") @@ ("t" :> "T")
    @@ ("u" :> "U") @@ ("v" :> "V") @@ ("w" :> "W") @@ ("x" :> "X") @@ ("y" :> "Y")
    @@ ("z" :> "Z")

\* str.upper()
upper(s) ==
    [k \in 1..Len(s) |-> IF s[k] \in DOMAIN LowerToUpper THEN LowerToUpper[s[k]] ELSE s[k]]

RECURSIVE lstrip(_)
lstrip(s) ==
    IF s # <<>> /\ Head(s) \in Whitespace THEN lstrip(Tail(s)) ELSE s

RECURSIVE rstrip(_)
rstrip(s) ==
    IF s # <<>> /\ s[Len(s)] \in Whitespace THEN rstrip(SubSeq(s, 1, Len(s) - 1)) ELSE s

\* str.strip()
strip(s) == rstrip(lstrip(s))

\* str.split() without a separator: the maximal runs of non-whitespace.
RECURSIVE split_from(_, _, _)
split_from(s, word, words) ==
    IF s = <<>>
    THEN IF word = <<>> THEN words ELSE Append(words, word)
    ELSE IF Head(s) \in Whitespace
         THEN split_from(Tail(s), <<>>, IF word = <<>> THEN words ELSE Append(words, word))
         ELSE split_from(Tail(s), Append(word, Head(s)), words)

split(s) == split_from(s, <<>>, <<>>)

\* sep.join(words)
RECURSIVE join(_, _)
join(sep, words) ==
    IF words = <<>> THEN <<>>
    ELSE IF Len(words) = 1 THEN words[1]
    ELSE words[1] \o sep \o join(sep, Tail(words))

\* _standardize: uppercase, strip, collapse internal whitespace.
standardize(s) ==
    IF s = None THEN <<>> ELSE join(<<" ">>, split(strip(upper(s))))

\* ------------------------------------------------------------------------
\* Mapping table (a pandas DataFrame: its columns and its rows in order)
\* ------------------------------------------------------------------------

MAPPING_COLUMNS == {"Payee", "Teams_Folder"}

Uncategorized == <<"U","n","c","a","t","e","g","o","r","i","z","e","d">>

\* pd.DataFrame(columns=MAPPING_COLUMNS)
EmptyFrame ==
    [columns |-> MAPPING_COLUMNS, rows |-> <<>>, Standardized_Name |-> <<>>]

\* A frame read from a CSV whose rows are `rows`.
Frame(rows) ==
    [columns |-> MAPPING_COLUMNS, rows |-> rows, Standardized_Name |-> <<>>]

\* get_mapping_info, lines 101-102: the Standardized_Name column is added to
\* the caller's frame the first time a lookup needs it.
with_standardized_name(df) ==
    IF "Standardized_Name" \in df.columns
    THEN df
    ELSE [df EXCEPT !.columns = @ \cup {"Standardized_Name"},
                    !.Standardized_Name =
                        [k \in 1..Len(df.rows) |-> standardize(df.rows[k].Payee)]]

\* The frame as get_mapping_info leaves it.
frame_after_lookup(payee, df) ==
    IF df.rows = <<>> \/ payee = None THEN df ELSE with_standardized_name(df)

\* A variant of get_mapping_info that compares the raw payee with the
\* standardized table entries.
get_mapping_info_raw_key(payee, df) ==
    IF df.rows = <<>> \/ payee = None
    THEN Uncategorized
    ELSE LET d == with_standardized_name(df)
             match == {k \in 1..Len(d.rows) : d.Standardized_Name[k] = payee}
         IN  IF match # {}
             THEN LET first == CHOOSE k \in match : \A j \in match : k <= j
                      folder == strip(d.rows[first].Teams_Folder)
                  IN  IF folder # <<>> THEN folder ELSE Uncategorized
             ELSE Uncategorized

\* A variant of get_mapping_info that answers a miss with an empty folder.
get_mapping_info_blank_on_miss(payee, df) ==
    IF df.rows = <<>> \/ payee = None
    THEN <<>>
    ELSE LET payee_std == standardize(payee)
             d == with_standardized_name(df)
             match == {k \in 1..Len(d.rows) : d.Standardized_Name[k] = payee_std}
         IN  IF match # {}
             THEN LET first == CHOOSE k \in match : \A j \in match : k <= j
                  IN  strip(d.rows[first].Teams_Folder)
             ELSE <<>>

\* get_mapping_info: the Teams_Folder of the first row whose standardized
\* Payee equals the standardized lookup key, or "Uncategorized".
get_mapping_info(payee, df) ==
    IF df.rows = <<>> \/ payee = None
    THEN Uncategorized
    ELSE LET payee_std == standardize(payee)
             d == with_standardized_name(df)
             match == {k \in 1..Len(d.rows) : d.Standardized_Name[k] = payee_std}
         IN  IF match # {}
             THEN LET first == CHOOSE k \in match : \A j \in match : k <= j
                      folder == strip(d.rows[first].Teams_Folder)
                  IN  IF folder # <<>> THEN folder ELSE Uncategorized
             ELSE Uncategorized

\* ------------------------------------------------------------------------
\* Program constants
\* ------------------------------------------------------------------------

MAX_RETRIES == 5
INITIAL_WAIT == 1
MAX_WAIT == 32

\* time.sleep(1) in call_gemini_api and time.sleep(2) in process_echeques.
POLITE_DELAY == 1
THROTTLE_DELAY == 2

TRUST_ACCOUNT_PAYER ==
    <<"W","M","C"," ","N","O","M","I","N","E","E"," ","L","I","M","I","T","E","D","-",
      "C","L","I","E","N","T"," ","T","R","U","S","T"," ","A","C","C","O","U","N","T">>

WMC_PAYER ==
    <<"W","E","A","L","T","H"," ","M","A","N","A","G","E","M","E","N","T"," ",
      "C","U","B","E"," ","L","I","M","I","T","E","D">>

\* The aliases that take the management-fee suffix.
MANAGEMENT_FEE_ALIASES ==
    { <<"O","F","S">>,
      <<"O","R","E","A","N","A"," ","F","I","N","A","N","C","I","A","L"," ",
        "S","E","R","V","I","C","E","S"," ","L","I","M","I","T","E","D">> }

\* ------------------------------------------------------------------------
\* Errors: the message strings of the code, as (kind, retry count, detail)
\* ------------------------------------------------------------------------

NoError == [kind |-> "none", retries |-> 0, detail |-> <<>>]

Err(kind, detail) == [kind |-> kind, retries |-> 0, detail |-> detail]

\* "API rate limit error after {MAX_RETRIES} retries: {e}"
RateLimitErr(e) == [kind |-> "api_rate_limit", retries |-> MAX_RETRIES, detail |-> e]

\* ------------------------------------------------------------------------
\* Filename helpers
\* ------------------------------------------------------------------------

\* The characters of the class [\/*?:"<>|].
INVALID_FILENAME_CHARS == {"/", "*", "?", ":", "\"", "<", ">", "|"}

\* str(x) as an f-string renders it.
fstr(x) == IF x = None THEN <<"N","o","n","e">> ELSE x

\* x or ""
or_empty(x) == IF x = None THEN <<>> ELSE x

\* sanitize_filename
sanitize_filename(filename) ==
    LET s == or_empty(filename)
    IN  strip([k \in 1..Len(s) |-> IF s[k] \in INVALID_FILENAME_CHARS THEN "_" ELSE s[k]])

\* A variant of get_filename_alias that takes the folder whoever pays.
get_filename_alias_any_payer(payee, payer, df) ==
    LET folder == get_mapping_info(payee, df)
    IN  IF folder # <<>> /\ folder # Uncategorized THEN folder ELSE or_empty(payee)

\* get_filename_alias
get_filename_alias(payee, payer, df) ==
    IF standardize(payer) = standardize(TRUST_ACCOUNT_PAYER)
    THEN or_empty(payee)
    ELSE LET folder == get_mapping_info(payee, df)
         IN  IF folder # <<>> /\ folder # Uncategorized THEN folder ELSE or_empty(payee)

\* A variant of generate_filename whose management-fee suffix comes first.
generate_filename_mf_first(key_identifier, payer, payee_for_filename, currency, is_trailer_fee, is_management_fee) ==
    LET sanitized_payee == sanitize_filename(payee_for_filename)
        suffix ==
            IF is_management_fee /\ standardize(payee_for_filename) \in MANAGEMENT_FEE_ALIASES
            THEN <<" ","M","F">>
            ELSE IF is_trailer_fee THEN <<"_","T">> ELSE <<>>
        ext == <<".","p","d","f">>
    IN  IF payer = WMC_PAYER
        THEN fstr(key_identifier) \o <<" ","W","M","C","-">> \o sanitized_payee \o suffix \o ext
        ELSE IF payer = TRUST_ACCOUNT_PAYER
             THEN fstr(currency) \o <<" ">> \o fstr(key_identifier) \o <<" ">>
                  \o sanitized_payee \o suffix \o ext
             ELSE sanitized_payee \o <<"_">> \o fstr(key_identifier) \o <<"_">>
                  \o fstr(currency) \o suffix \o ext

\* A variant of generate_filename with the two known payers' templates
\* exchanged.
generate_filename_swapped(key_identifier, payer, payee_for_filename, currency, is_trailer_fee, is_management_fee) ==
    LET sanitized_payee == sanitize_filename(payee_for_filename)
        suffix ==
            IF is_trailer_fee THEN <<"_","T">>
            ELSE IF is_management_fee
                    /\ standardize(payee_for_filename) \in MANAGEMENT_FEE_ALIASES
                 THEN <<" ","M","F">>
                 ELSE <<>>
        ext == <<".","p","d","f">>
    IN  IF payer = TRUST_ACCOUNT_PAYER
        THEN fstr(key_identifier) \o <<" ","W","M","C","-">> \o sanitized_payee \o suffix \o ext
        ELSE IF payer = WMC_PAYER
             THEN fstr(currency) \o <<" ">> \o fstr(key_identifier) \o <<" ">>
                  \o sanitized_payee \o suffix \o ext
             ELSE sanitized_payee \o <<"_">> \o fstr(key_identifier) \o <<"_">>
                  \o fstr(currency) \o suffix \o ext

\* generate_filename
generate_filename(key_identifier, payer, payee_for_filename, currency, is_trailer_fee, is_management_fee) ==
    LET sanitized_payee == sanitize_filename(payee_for_filename)
        suffix ==
            IF is_trailer_fee THEN <<"_","T">>
            ELSE IF is_management_fee
                    /\ standardize(payee_for_filename) \in MANAGEMENT_FEE_ALIASES
                 THEN <<" ","M","F">>
                 ELSE <<>>
        ext == <<".","p","d","f">>
    IN  IF payer = WMC_PAYER
        THEN fstr(key_identifier) \o <<" ","W","M","C","-">> \o sanitized_payee \o suffix \o ext
        ELSE IF payer = TRUST_ACCOUNT_PAYER
             THEN fstr(currency) \o <<" ">> \o fstr(key_identifier) \o <<" ">>
                  \o sanitized_payee \o suffix \o ext
             ELSE sanitized_payee \o <<"_">> \o fstr(key_identifier) \o <<"_">>
                  \o fstr(currency) \o suffix \o ext

\* ------------------------------------------------------------------------
\* PDF to image
\* ------------------------------------------------------------------------

\* What a document's bytes can be: a PDF with pages, a PDF with no page,
\* bytes PyMuPDF cannot open.
PdfContents == {"pdf_with_pages", "pdf_without_pages", "not_a_pdf"}

\* pdf_to_image: (image bytes, None) or (None, error).
pdf_to_image(pdf_bytes) ==
    IF pdf_bytes = "pdf_with_pages"
    THEN [image |-> "png", error |-> NoError]
    ELSE IF pdf_bytes = "pdf_without_pages"
         THEN [image |-> "", error |-> Err("pdf_empty", <<>>)]
         ELSE [image |-> "", error |-> Err("pdf_convert", <<"cannot open">>)]

\* ------------------------------------------------------------------------
\* The model service and the retry policy
\* ------------------------------------------------------------------------

\* What one generate_content call can do: raise with a message holding
\* "429", raise with "Resource has been exhausted", return a falsy
\* response, raise any other error, return a response whose .text raises,
\* return a response with text.
ApiOutcomes ==
    {"http_429", "resource_exhausted", "empty_response", "server_error",
     "blocked_response", "text"}

\* str(e) of the exception generate_content (or response.text) raised, as
\* the words of the message.
exception_message(outcome) ==
    IF outcome = "http_429" THEN <<"429", "Too Many Requests">>
    ELSE IF outcome = "resource_exhausted" THEN <<"Resource has been exhausted", "(quota)">>
    ELSE IF outcome = "server_error" THEN <<"500", "Internal error">>
    ELSE <<"response has no text">>

\* msg.lower(), for the words the model service sends.
lower_words(msg) ==
    [k \in 1..Len(msg) |->
        IF msg[k] = "Resource has been exhausted" THEN "resource has been exhausted"
        ELSE msg[k]]

\* `"429" in msg or "resource has been exhausted" in msg.lower()`
is_rate_limit_message(msg) ==
    \/ \E k \in 1..Len(msg) : msg[k] = "429"
    \/ \E k \in 1..Len(msg) : lower_words(msg)[k] = "resource has been exhausted"

\* A variant of attempt_result in which an empty response is an ordinary
\* exception.
attempt_result_empty_is_error(outcome) ==
    IF outcome = "text"
    THEN [raised |-> "", message |-> <<>>]
    ELSE LET inner ==
                 [raised |-> "Exception",
                  message |-> IF outcome = "empty_response"
                              THEN <<"Empty response from API">>
                              ELSE exception_message(outcome)]
         IN  IF is_rate_limit_message(inner.message)
             THEN [raised |-> "APIRateLimitError",
                   message |-> <<"Rate limit exceeded:">> \o inner.message]
             ELSE inner

\* The body of call_gemini_api_with_retry for one attempt: what it returns
\* or raises.  raised is "" (returned), "APIRateLimitError" or "Exception".
attempt_result(outcome) ==
    IF outcome = "text"
    THEN [raised |-> "", message |-> <<>>]
    ELSE LET inner ==
                 IF outcome = "empty_response"
                 THEN [raised |-> "APIRateLimitError", message |-> <<"Empty response from API">>]
                 ELSE [raised |-> "Exception", message |-> exception_message(outcome)]
         IN  IF is_rate_limit_message(inner.message)
             THEN [raised |-> "APIRateLimitError",
                   message |-> <<"Rate limit exceeded:">> \o inner.message]
             ELSE inner

\* A retry policy that retries on any exception.
retry_any_exception(raised) == raised # ""

\* retry=retry_if_exception_type(APIRateLimitError)
should_retry(raised) == raised = "APIRateLimitError"

\* Stop conditions that are off by one attempt.
stop_one_attempt_early(attempt_number) == attempt_number >= MAX_RETRIES - 1

stop_one_attempt_late(attempt_number) == attempt_number >= MAX_RETRIES + 1

\* stop=stop_after_attempt(MAX_RETRIES)
stop_after_attempt(attempt_number) == attempt_number >= MAX_RETRIES

RECURSIVE pow2(_)
pow2(n) == IF n <= 0 THEN 1 ELSE 2 * pow2(n - 1)

\* A backoff whose first wait is already doubled.
wait_exponential_doubled_first(attempt_number) ==
    LET result == INITIAL_WAIT * pow2(attempt_number)
    IN  IF result < MAX_WAIT THEN result ELSE MAX_WAIT

\* wait=wait_exponential(multiplier=INITIAL_WAIT, max=MAX_WAIT): the sleep
\* after the attempt numbered attempt_number.
wait_exponential(attempt_number) ==
    LET result == INITIAL_WAIT * pow2(attempt_number - 1)
    IN  IF result < MAX_WAIT THEN result ELSE MAX_WAIT

\* ------------------------------------------------------------------------
\* The model's reply and its validation
\* ------------------------------------------------------------------------

\* The currency codes the prompt asks the model to normalize to.
CURRENCY_CODES ==
    { <<"C","N","Y">>, <<"U","S","D">>, <<"H","K","D">>, <<"E","U","R">>, <<"G","B","P">> }

required_fields ==
    <<"date", "payee", "key_identifier", "payer", "currency", "is_trailer_fee", "is_management_fee">>

\* A reply text: what it is as JSON (not JSON at all, a scalar such as 42 or
\* null, an array, an object), whether it is wrapped in ``` fences, and for
\* an object the required fields it holds with their values.
Reply(form, fenced, present, payee, key_identifier, payer, currency, is_trailer_fee, is_management_fee) ==
    [form |-> form, fenced |-> fenced, present |-> present,
     date |-> IF "date" \in present THEN "2024-01-31" ELSE "",
     payee |-> payee, key_identifier |-> key_identifier, payer |-> payer,
     currency |-> currency, is_trailer_fee |-> is_trailer_fee,
     is_management_fee |-> is_management_fee]

AllRequired == {required_fields[k] : k \in 1..Len(required_fields)}

NoReply == Reply("none", FALSE, {}, <<>>, <<>>, <<>>, <<>>, FALSE, FALSE)

ReplyNotJson == Reply("malformed", FALSE, {}, <<>>, <<>>, <<>>, <<>>, FALSE, FALSE)

ReplyScalar == Reply("scalar", FALSE, {}, <<>>, <<>>, <<>>, <<>>, FALSE, FALSE)

ReplyArray == Reply("array", FALSE, {}, <<>>, <<>>, <<>>, <<>>, FALSE, FALSE)

ReplyNoPayer ==
    Reply("object", FALSE, AllRequired \ {"payer"}, <<"A","c","m","e"," ","C","o">>,
          <<"1","2","3","4","5","6">>, <<>>, <<"H","K","D">>, FALSE, FALSE)

ReplyNoDateNoCurrency ==
    Reply("object", FALSE, AllRequired \ {"date", "currency"}, <<"A","c","m","e"," ","C","o">>,
          <<"1","2","3","4","5","6">>, WMC_PAYER, <<>>, FALSE, FALSE)

\* Trust-account payer, HKD, key 123456, payee "Acme Co", trailer fee.
ReplyTrust ==
    Reply("object", FALSE, AllRequired, <<"A","c","m","e"," ","C","o">>,
          <<"1","2","3","4","5","6">>, TRUST_ACCOUNT_PAYER, <<"H","K","D">>, TRUE, FALSE)

\* WMC payer, key 987654, a payee the table maps, wrapped in ```json fences.
ReplyWmc ==
    Reply("object", TRUE, AllRequired, <<"v","e","n","d","o","r"," "," ","x">>,
          <<"9","8","7","6","5","4">>, WMC_PAYER, <<"U","S","D">>, FALSE, FALSE)

\* Another payer, a payee with characters a filename cannot hold, a
\* currency outside the five codes, management fee.
ReplyOther ==
    Reply("object", FALSE, AllRequired, <<"o","f","s","/","b">>,
          <<"5","5","5","5","5","5">>, <<"J","a","n","e">>, <<"J","P","Y">>, FALSE, TRUE)

Replies ==
    {ReplyNotJson, ReplyScalar, ReplyArray, ReplyNoPayer, ReplyNoDateNoCurrency,
     ReplyTrust, ReplyWmc, ReplyOther}

\* raw_response.strip().replace("```json", "").replace("```", "")
clean_response(raw_response) == [raw_response EXCEPT !.fenced = FALSE]

\* Whether json.loads raises JSONDecodeError on the text.
json_decode_fails(text) == text.form = "malformed" \/ text.fenced

\* [f for f in required_fields if f not in parsed_json]
missing_fields(parsed_json) ==
    SelectSeq(required_fields, LAMBDA f : f \notin parsed_json.present)

NullData ==
    [present |-> {}, date |-> "", payee |-> <<>>, key_identifier |-> <<>>, payer |-> <<>>,
     currency |-> <<>>, is_trailer_fee |-> FALSE, is_management_fee |-> FALSE,
     Teams_Folder |-> <<>>]

\* The None of a (result, error) pair.
NullResult ==
    [original_data |-> NullData, generated_filename |-> <<>>, pdf_data |-> "",
     original_filename |-> ""]

Failed(error) == [ok |-> FALSE, result |-> NullResult, error |-> error]

\* process_echeque, lines 229-269: parse the reply, check the required
\* fields, resolve the folder and the alias, build the filename.
process_response(raw_response, pdf_data, mappings_df) ==
    LET parsed_json == clean_response(raw_response)
    IN  IF json_decode_fails(parsed_json)
        THEN Failed(Err("json_parse", <<"sample of the response">>))
        ELSE IF parsed_json.form = "scalar"
        THEN Failed(Err("processing", <<"argument is not iterable">>))
        ELSE IF missing_fields(parsed_json) # <<>>
        THEN Failed(Err("missing_fields", missing_fields(parsed_json)))
        ELSE LET payee_name == parsed_json.payee
                 payer_name == parsed_json.payer
                 teams_folder == get_mapping_info(payee_name, mappings_df)
                 df1 == frame_after_lookup(payee_name, mappings_df)
                 payee_alias_for_filename == get_filename_alias(payee_name, payer_name, df1)
                 filename ==
                     generate_filename(parsed_json.key_identifier, payer_name,
                                       payee_alias_for_filename, parsed_json.currency,
                                       parsed_json.is_trailer_fee,
                                       parsed_json.is_management_fee)
             IN  [ok |-> TRUE,
                  result |->
                      [original_data |->
                           [present |-> parsed_json.present, date |-> parsed_json.date,
                            payee |-> payee_name,
                            key_identifier |-> parsed_json.key_identifier,
                            payer |-> payer_name, currency |-> parsed_json.currency,
                            is_trailer_fee |-> parsed_json.is_trailer_fee,
                            is_management_fee |-> parsed_json.is_management_fee,
                            Teams_Folder |-> teams_folder],
                       generated_filename |-> filename,
                       pdf_data |-> pdf_data,
                       original_filename |-> ""],
                  error |-> NoError]

\* The caller's frame after process_echeque has used it: the lookups run
\* only when the reply passed validation.
frame_after_response(raw_response, mappings_df) ==
    LET parsed_json == clean_response(raw_response)
    IN  IF json_decode_fails(parsed_json) \/ parsed_json.form = "scalar"
           \/ missing_fields(parsed_json) # <<>>
        THEN mappings_df
        ELSE frame_after_lookup(parsed_json.payee, mappings_df)

\* ------------------------------------------------------------------------
\* Mapping store
\* ------------------------------------------------------------------------

RowVendor ==
    [Payee |-> <<"V","e","n","d","o","r"," ","X"," ">>,
     Teams_Folder |-> <<"V","e","n","d","o","r"," ","X">>]

RowOfs == [Payee |-> <<"O","F","S","/","B">>, Teams_Folder |-> <<" ","O","F","S">>]

\* The mapping file as load_mappings finds it.
MappingFiles ==
    { [state |-> "absent", rows |-> <<>>],
      [state |-> "unreadable", rows |-> <<>>],
      [state |-> "present", rows |-> <<RowVendor, RowOfs>>] }

\* load_mappings: (frame, None) or (empty frame, error message).
load_mappings(file) ==
    IF file.state = "unreadable"
    THEN [df |-> EmptyFrame, error |-> Err("mapping_load", <<"cannot read">>)]
    ELSE IF file.state = "absent"
         THEN [df |-> EmptyFrame, error |-> NoError]
         ELSE [df |-> Frame(file.rows), error |-> NoError]

\* ------------------------------------------------------------------------
\* Batch orchestrator: process_echeques and the calls it makes
\* ------------------------------------------------------------------------

VARIABLES
    downloaded_files,   \* the input documents, in order: [filename, content]
    gemini_api_key,     \* "" when no key is supplied
    progress_callback,  \* the progress sink: absent, or how it behaves when called
    mapping_file,       \* payee_mappings.csv as load_mappings finds it
    pc,                 \* where process_echeques (or the call it is in) stands
    i,                  \* loop index: the documents already dealt with
    processed_files,    \* the results list
    errors,             \* the errors list
    mappings_df,        \* the loaded mapping frame, shared by all documents
    mapping_error,      \* the warning load_mappings returned
    image_bytes,        \* process_echeque: the rasterized page
    raw_response,       \* process_echeque: the text the model returned
    attempt_number,     \* the retry policy's attempt counter for this call
    last_exception,     \* what the last attempt raised
    ret,                \* what process_echeque returns: (result, error)
    notifications,      \* the calls that reached the progress sink, in order
    batch_events,       \* history: notifications, throttling sleeps, calls of
                        \* process_echeque and entries appended, in order
    doc_events,         \* history of the current document's extraction: the
                        \* sleeps, the network calls, the backoff waits
    returned            \* history: what process_echeque returned, by document

inputs == <<downloaded_files, gemini_api_key, progress_callback, mapping_file>>
lists == <<processed_files, errors>>
table == <<mappings_df, mapping_error>>
locals == <<image_bytes, raw_response, attempt_number, last_exception, ret>>
history == <<notifications, batch_events, doc_events, returned>>
batch_vars == <<inputs, pc, i, lists, table, locals, history>>

\* The resolver specification's state: two lookups against one frame.
VARIABLES
    res_df,       \* the frame the lookups share (mutated by the first lookup)
    res_payee,    \* <<first payee, second payee>>
    res_folder,   \* <<result of first lookup, result of second lookup>>
    res_done      \* which of the two lookups have run

res_vars == <<res_df, res_payee, res_folder, res_done>>

\* The naming specification's state: process_echeque, lines 239-257, for
\* one record that passed validation.
VARIABLES
    fn_record,    \* parsed_json: payee, payer, key_identifier, currency, flags
    fn_df,        \* the mapping frame the lookups are given
    fn_folder,    \* teams_folder
    fn_alias,     \* payee_alias_for_filename
    fn_name,      \* filename
    fn_pc         \* the statement the naming stands at

fn_vars == <<fn_record, fn_df, fn_folder, fn_alias, fn_name, fn_pc>>

\* The application's mapping editor (app.py): the CSV file and the table
\* shown in the data editor.
VARIABLES
    mapping_csv,  \* the rows of payee_mappings.csv, in order
    edited_df     \* the rows of the data editor's table, in order

ed_vars == <<mapping_csv, edited_df>>

\* The application's session state around the Process step (app.py).
VARIABLES
    session_downloaded_files,  \* st.session_state.downloaded_files: filenames, in order
    session_processed_files,   \* st.session_state.processed_files: original filenames, in order
    processed_filenames,       \* st.session_state.processed_filenames
    last_run                   \* history: what the last Process run was given and returned

app_vars ==
    <<session_downloaded_files, session_processed_files, processed_filenames, last_run>>

ui_vars == <<ed_vars, app_vars>>

vars == <<batch_vars, res_vars, fn_vars, ui_vars>>

FILENAMES == <<"cheque-1.pdf", "cheque-2.pdf", "cheque-3.pdf", "cheque-4.pdf", "cheque-5.pdf">>

\* The batches: up to MaxDocs documents, each with any content.
DocumentLists ==
    { [k \in 1..n |-> [filename |-> FILENAMES[k], content |-> c[k]]] :
        n \in 0..MaxDocs, c \in [1..MaxDocs -> PdfContents] }

ProgressSinks == {"absent", "two_arguments", "one_argument", "raises"}

total_files == Len(downloaded_files)

\* The document the loop is at (enumerate's file_info).
file_info == downloaded_files[i + 1]

NoException == [raised |-> "", message |-> <<>>]

NoReturn == Failed(NoError)

NoFraction == <<>>

\* progress = (i + 1) / total_files if total_files else 1.0, as the
\* fraction <<numerator, denominator>>.
\* A progress value computed as a percentage.
progress_as_percentage(index, total) ==
    IF total # 0 THEN <<(index + 1) * 100, total>> ELSE <<1, 1>>

progress_fraction(index, total) ==
    IF total # 0 THEN <<index + 1, total>> ELSE <<1, 1>>

BatchEvent(ev, doc) == [ev |-> ev, doc |-> doc]

DocEvent(ev, n, what) == [ev |-> ev, n |-> n, what |-> what]

BatchInit ==
    /\ downloaded_files \in DocumentLists
    /\ gemini_api_key \in {"", "key"}
    /\ progress_callback \in ProgressSinks
    /\ mapping_file \in MappingFiles
    /\ pc = "start"
    /\ i = 0
    /\ processed_files = <<>>
    /\ errors = <<>>
    /\ mappings_df = EmptyFrame
    /\ mapping_error = NoError
    /\ image_bytes = ""
    /\ raw_response = NoReply
    /\ attempt_number = 0
    /\ last_exception = NoException
    /\ ret = NoReturn
    /\ notifications = <<>>
    /\ batch_events = <<>>
    /\ doc_events = <<>>
    /\ returned = <<>>

\* process_echeques, lines 273-280.
LoadMappings ==
    /\ pc = "start"
    /\ mappings_df' = load_mappings(mapping_file).df
    /\ mapping_error' = load_mappings(mapping_file).error
    /\ pc' = "loop"
    /\ UNCHANGED <<res_vars, fn_vars, ui_vars, inputs, i, lists, locals, history>>

\* The for statement takes the next document; the calls made for it start
\* with fresh locals and a fresh retry state.
NextFile ==
    /\ pc = "loop"
    /\ i < total_files
    /\ pc' = "notify"
    /\ image_bytes' = ""
    /\ raw_response' = NoReply
    /\ attempt_number' = 0
    /\ last_exception' = NoException
    /\ ret' = NoReturn
    /\ doc_events' = <<>>
    /\ UNCHANGED <<res_vars, fn_vars, ui_vars, inputs, i, lists, table, notifications, batch_events, returned>>

\* The for statement is exhausted: return processed_files, errors.
Return ==
    /\ pc = "loop"
    /\ i = total_files
    /\ pc' = "done"
    /\ UNCHANGED <<res_vars, fn_vars, ui_vars, inputs, i, lists, table, locals, history>>

\* Lines 284-290 with no sink, or with a sink that returns: a sink taking
\* two arguments receives (msg, progress); one taking a single argument
\* raises TypeError on that call and receives (msg) alone.
Notify ==
    /\ pc = "notify"
    /\ progress_callback # "raises"
    /\ notifications' =
           IF progress_callback = "absent" THEN notifications
           ELSE Append(notifications,
                       [doc |-> i + 1, of |-> total_files,
                        filename |-> file_info.filename,
                        fraction |-> IF progress_callback = "two_arguments"
                                     THEN progress_fraction(i, total_files)
                                     ELSE NoFraction])
    /\ batch_events' =
           IF progress_callback = "absent" THEN batch_events
           ELSE Append(batch_events, BatchEvent("notify", i + 1))
    /\ pc' = "throttle"
    /\ UNCHANGED <<res_vars, fn_vars, ui_vars, inputs, i, lists, table, locals, doc_events, returned>>

\* Lines 284-290 with a sink that raises, and the handler of lines 303-304:
\* the document becomes an error entry and the loop goes on.
NotifyRaises ==
    /\ pc = "notify"
    /\ progress_callback = "raises"
    /\ notifications' =
           Append(notifications,
                  [doc |-> i + 1, of |-> total_files, filename |-> file_info.filename,
                   fraction |-> progress_fraction(i, total_files)])
    /\ batch_events' =
           batch_events \o <<BatchEvent("notify", i + 1), BatchEvent("entry", i + 1)>>
    /\ errors' = Append(errors, [filename |-> file_info.filename,
                                  error |-> Err("unexpected", <<"progress callback raised">>)])
    /\ i' = i + 1
    /\ pc' = "loop"
    /\ UNCHANGED <<res_vars, fn_vars, ui_vars, inputs, processed_files, table, locals, doc_events, returned>>

\* Lines 292-293: time.sleep(2) before every document but the first.
Throttle ==
    /\ pc = "throttle"
    /\ batch_events' =
           IF i > 0 THEN Append(batch_events, BatchEvent("throttle", i + 1)) ELSE batch_events
    /\ pc' = "rasterize"
    /\ UNCHANGED <<res_vars, fn_vars, ui_vars, inputs, i, lists, table, locals, notifications, doc_events, returned>>

\* process_echeque, lines 219-221.
Rasterize ==
    /\ pc = "rasterize"
    /\ LET r == pdf_to_image(file_info.content)
       IN  /\ image_bytes' = r.image
           /\ ret' = IF r.error # NoError THEN Failed(r.error) ELSE ret
           /\ pc' = IF r.error # NoError THEN "collect" ELSE "credential"
    /\ batch_events' = Append(batch_events, BatchEvent("process", i + 1))
    /\ doc_events' = Append(doc_events, DocEvent("rasterize", 0, ""))
    /\ UNCHANGED <<res_vars, fn_vars, ui_vars, inputs, i, lists, table, raw_response, attempt_number, last_exception,
                   notifications, returned>>

\* A call_gemini_api that does not look at the key before going on.
KeyNotChecked ==
    /\ pc = "credential"
    /\ gemini_api_key = ""
    /\ doc_events' = Append(doc_events, DocEvent("configure", 0, ""))
    /\ pc' = "polite"
    /\ UNCHANGED <<res_vars, fn_vars, ui_vars, inputs, i, lists, table, locals, notifications, batch_events,
                   returned>>

\* call_gemini_api, lines 159-160: no key, no call.
MissingKey ==
    /\ pc = "credential"
    /\ gemini_api_key = ""
    /\ ret' = Failed(Err("missing_key", <<>>))
    /\ pc' = "collect"
    /\ UNCHANGED <<res_vars, fn_vars, ui_vars, inputs, i, lists, table, image_bytes, raw_response, attempt_number,
                   last_exception, history>>

\* call_gemini_api, lines 161-168 and 179-180: configure the client and
\* build the request; a failure here is the configuration error.
Configure ==
    /\ pc = "credential"
    /\ gemini_api_key # ""
    /\ \E configured \in BOOLEAN :
          /\ ret' = IF configured THEN ret
                    ELSE Failed(Err("api_configuration", <<"configure failed">>))
          /\ pc' = IF configured THEN "polite" ELSE "collect"
    /\ doc_events' = Append(doc_events, DocEvent("configure", 0, ""))
    /\ UNCHANGED <<res_vars, fn_vars, ui_vars, inputs, i, lists, table, image_bytes, raw_response, attempt_number,
                   last_exception, notifications, batch_events, returned>>

\* A call_gemini_api that goes to the first call without sleeping.
PoliteDelaySkipped ==
    /\ pc = "polite"
    /\ pc' = "attempt"
    /\ UNCHANGED <<res_vars, fn_vars, ui_vars, inputs, i, lists, table, locals, history>>

\* call_gemini_api, line 170: time.sleep(1).
PoliteDelay ==
    /\ pc = "polite"
    /\ doc_events' = Append(doc_events, DocEvent("sleep", POLITE_DELAY, ""))
    /\ pc' = "attempt"
    /\ UNCHANGED <<res_vars, fn_vars, ui_vars, inputs, i, lists, table, locals, notifications, batch_events, returned>>

\* call_gemini_api_with_retry, lines 146-155: one generate_content call,
\* with whatever the service answers.
Attempt ==
    /\ pc = "attempt"
    /\ \E outcome \in ApiOutcomes :
         \E reply \in (IF outcome = "text" THEN Replies ELSE {NoReply}) :
            LET r == attempt_result(outcome)
            IN  /\ attempt_number' = attempt_number + 1
                /\ doc_events' = Append(doc_events, DocEvent("call", attempt_number + 1, IF r.raised = "" THEN "returned" ELSE r.raised))
                /\ last_exception' = r
                /\ raw_response' = reply
                /\ pc' = IF r.raised = "" THEN "respond" ELSE "raised"
    /\ UNCHANGED <<res_vars, fn_vars, ui_vars, inputs, i, lists, table, image_bytes, ret, notifications, batch_events,
                   returned>>

\* The retry policy after a raised attempt, lines 138-143: sleep and call
\* again.
Backoff ==
    /\ pc = "raised"
    /\ should_retry(last_exception.raised)
    /\ ~stop_after_attempt(attempt_number)
    /\ doc_events' = Append(doc_events, DocEvent("wait", wait_exponential(attempt_number), ""))
    /\ pc' = "attempt"
    /\ UNCHANGED <<res_vars, fn_vars, ui_vars, inputs, i, lists, table, locals, notifications, batch_events, returned>>

\* The retry policy re-raises (reraise=True) and call_gemini_api, lines
\* 175-178, turns the exception into an error message.
Reraise ==
    /\ pc = "raised"
    /\ ~should_retry(last_exception.raised) \/ stop_after_attempt(attempt_number)
    /\ ret' = IF last_exception.raised = "APIRateLimitError"
              THEN Failed(RateLimitErr(last_exception.message))
              ELSE Failed(Err("api_unexpected", last_exception.message))
    /\ pc' = "collect"
    /\ UNCHANGED <<res_vars, fn_vars, ui_vars, inputs, i, lists, table, image_bytes, raw_response, attempt_number,
                   last_exception, history>>

\* call_gemini_api returns (text, None); process_echeque, lines 229-269.
Respond ==
    /\ pc = "respond"
    /\ ret' = process_response(raw_response, file_info.content, mappings_df)
    /\ mappings_df' = frame_after_response(raw_response, mappings_df)
    /\ pc' = "collect"
    /\ UNCHANGED <<res_vars, fn_vars, ui_vars, inputs, i, lists, mapping_error, image_bytes, raw_response, attempt_number,
                   last_exception, history>>

\* A loop body without the `continue` of line 298: after the error entry,
\* line 300 subscripts None, and the handler of line 304 adds a second entry.
CollectWithoutContinue ==
    /\ pc = "collect"
    /\ errors' = IF ~ret.ok
                 THEN errors \o <<[filename |-> file_info.filename, error |-> ret.error],
                                  [filename |-> file_info.filename,
                                   error |-> Err("unexpected", <<"NoneType">>)]>>
                 ELSE errors
    /\ processed_files' =
           IF ret.ok
           THEN Append(processed_files,
                       [ret.result EXCEPT !.original_filename = file_info.filename])
           ELSE processed_files
    /\ returned' = Append(returned, [doc |-> i + 1, ret |-> ret])
    /\ batch_events' = Append(batch_events, BatchEvent("entry", i + 1))
    /\ i' = i + 1
    /\ pc' = "loop"
    /\ UNCHANGED <<res_vars, fn_vars, ui_vars, inputs, table, locals, notifications, doc_events>>

\* A loop body that leaves the loop (`break`) after an error entry.
CollectBreaksOnError ==
    /\ pc = "collect"
    /\ errors' = IF ~ret.ok
                 THEN Append(errors, [filename |-> file_info.filename, error |-> ret.error])
                 ELSE errors
    /\ processed_files' =
           IF ret.ok
           THEN Append(processed_files,
                       [ret.result EXCEPT !.original_filename = file_info.filename])
           ELSE processed_files
    /\ returned' = Append(returned, [doc |-> i + 1, ret |-> ret])
    /\ batch_events' = Append(batch_events, BatchEvent("entry", i + 1))
    /\ i' = i + 1
    /\ pc' = IF ret.ok THEN "loop" ELSE "done"
    /\ UNCHANGED <<res_vars, fn_vars, ui_vars, inputs, table, locals, notifications, doc_events>>

\* process_echeques, lines 295-301: the pair process_echeque returned goes
\* to one of the two lists.
Collect ==
    /\ pc = "collect"
    /\ errors' = IF ~ret.ok
                 THEN Append(errors, [filename |-> file_info.filename, error |-> ret.error])
                 ELSE errors
    /\ processed_files' =
           IF ret.ok
           THEN Append(processed_files,
                       [ret.result EXCEPT !.original_filename = file_info.filename])
           ELSE processed_files
    /\ returned' = Append(returned, [doc |-> i + 1, ret |-> ret])
    /\ batch_events' = Append(batch_events, BatchEvent("entry", i + 1))
    /\ i' = i + 1
    /\ pc' = "loop"
    /\ UNCHANGED <<res_vars, fn_vars, ui_vars, inputs, table, locals, notifications, doc_events>>

BatchNext ==
    \/ LoadMappings
    \/ NextFile
    \/ Return
    \/ Notify
    \/ NotifyRaises
    \/ Throttle
    \/ Rasterize
    \/ MissingKey
    \/ Configure
    \/ PoliteDelay
    \/ Attempt
    \/ Backoff
    \/ Reraise
    \/ Respond
    \/ Collect

\* ------------------------------------------------------------------------
\* Resolver specification: two lookups against one loaded table
\* ------------------------------------------------------------------------


Alphabet == {"a", "A", " "}

PayeeStrings == UNION {[1..n -> Alphabet] : n \in 0..MaxLen}

\* Normalization as the specification words it: uppercase, trim, collapse
\* each internal whitespace run to one space.  Computed character by
\* character, independently of the code's split/join.
RECURSIVE Collapse(_)
Collapse(s) ==
    IF s = <<>> THEN <<>>
    ELSE IF Head(s) \in Whitespace
         THEN IF Len(s) >= 2 /\ s[2] \in Whitespace
              THEN Collapse(Tail(s))
              ELSE <<" ">> \o Collapse(Tail(s))
         ELSE <<Head(s)>> \o Collapse(Tail(s))

RECURSIVE TrimLeft(_)
TrimLeft(s) == IF s # <<>> /\ Head(s) \in Whitespace THEN TrimLeft(Tail(s)) ELSE s

Reverse(s) == [k \in 1..Len(s) |-> s[Len(s) + 1 - k]]

Trim(s) == Reverse(TrimLeft(Reverse(TrimLeft(s))))

NormalForm(s) == Collapse(Trim(upper(s)))

\* The pairs the resolver claims are about: equal after normalization.
EquivalentPairs ==
    LET nf == [s \in PayeeStrings |-> NormalForm(s)]
    IN  {pq \in PayeeStrings \X PayeeStrings : nf[pq[1]] = nf[pq[2]]}

\* Rows a mapping CSV may hold: payees in several spellings, one with an
\* empty folder, two that standardize to the same key.
RowA  == [Payee |-> <<"A">>, Teams_Folder |-> <<"F">>]
RowAA == [Payee |-> <<" ", "a", "\t", " ", "a">>, Teams_Folder |-> <<"G", " ">>]
RowAa == [Payee |-> <<"A", " ", "A">>, Teams_Folder |-> <<"H">>]
RowNoFolder == [Payee |-> <<"a", " ", "a", " ", "a">>, Teams_Folder |-> <<>>]
RowBlank == [Payee |-> <<>>, Teams_Folder |-> <<"E">>]

MappingTables ==
    { <<>>,
      <<RowA>>,
      <<RowAA>>,
      <<RowA, RowAA>>,
      <<RowAA, RowAa>>,
      <<RowAa, RowAA, RowA>>,
      <<RowNoFolder, RowA>>,
      <<RowBlank, RowAA>> }

ResInit ==
    /\ res_payee \in EquivalentPairs
    /\ res_df \in {Frame(rows) : rows \in MappingTables}
    /\ res_folder = <<None, None>>
    /\ res_done = {}

\* One call get_mapping_info(res_payee[n], res_df).
Lookup(n) ==
    /\ n \notin res_done
    /\ res_folder' = [res_folder EXCEPT ![n] = get_mapping_info(res_payee[n], res_df)]
    /\ res_df' = frame_after_lookup(res_payee[n], res_df)
    /\ res_done' = res_done \cup {n}
    /\ UNCHANGED <<res_payee, batch_vars, fn_vars, ui_vars>>

\* The resolver specification leaves the batch where a batch of no document ends.
BatchIdle ==
    /\ downloaded_files = <<>>
    /\ gemini_api_key = ""
    /\ progress_callback = "absent"
    /\ mapping_file = [state |-> "absent", rows |-> <<>>]
    /\ pc = "done"
    /\ i = 0
    /\ processed_files = <<>>
    /\ errors = <<>>
    /\ mappings_df = EmptyFrame
    /\ mapping_error = NoError
    /\ image_bytes = ""
    /\ raw_response = NoReply
    /\ attempt_number = 0
    /\ last_exception = NoException
    /\ ret = NoReturn
    /\ notifications = <<>>
    /\ batch_events = <<>>
    /\ doc_events = <<>>
    /\ returned = <<>>

\* The batch specification makes no resolver lookup of its own.
ResIdle ==
    /\ res_df = EmptyFrame
    /\ res_payee = <<<<>>, <<>>>>
    /\ res_folder = <<None, None>>
    /\ res_done = {}

ResNext == \E n \in {1, 2} : Lookup(n)

\* ------------------------------------------------------------------------
\* Naming specification: folder, alias and filename of one valid record
\* ------------------------------------------------------------------------

RowLiteral ==
    [Payee |-> <<"M","i","s","c">>,
     Teams_Folder |-> <<"U","n","c","a","t","e","g","o","r","i","z","e","d">>]

\* The frames the naming is run against: no row, the rows of the batch's
\* mapping file, rows with a folder that spells the sentinel.
NamingFrames ==
    {EmptyFrame, Frame(<<RowVendor, RowOfs>>), Frame(<<RowOfs, RowLiteral>>)}

\* parsed_json["payee"]: unmapped, mapped in another spelling, the
\* management-fee entities, one with characters a filename cannot hold,
\* mapped to the literal sentinel, empty, null.
NamingPayees ==
    { <<"A","c","m","e"," ","C","o">>,
      <<"v","e","n","d","o","r"," "," ","x">>,
      <<"o","f","s">>,
      <<"o","f","s","/","b">>,
      <<"O","R","E","A","N","A"," ","F","I","N","A","N","C","I","A","L"," ",
        "S","E","R","V","I","C","E","S"," ","L","I","M","I","T","E","D">>,
      <<"a",":","b","*","?">>,
      <<"m","i","s","c">>,
      <<>>,
      None }

\* parsed_json["payer"]: the two known identities, spellings of them that
\* differ in case or whitespace only, someone else, null.
NamingPayers ==
    { TRUST_ACCOUNT_PAYER,
      [TRUST_ACCOUNT_PAYER EXCEPT ![1] = "w"],
      TRUST_ACCOUNT_PAYER \o <<" ">>,
      WMC_PAYER,
      [WMC_PAYER EXCEPT ![1] = "w"],
      <<"J","a","n","e">>,
      None }

NamingKeys == { <<"1","2","3","4","5","6">>, <<"9","8","7","6","5","4">> }

NamingCurrencies == { <<"H","K","D">>, <<"U","S","D">>, <<"J","P","Y">>, <<"N","/","A">>, None }

NamingRecords ==
    [payee : NamingPayees, payer : NamingPayers, key_identifier : NamingKeys,
     currency : NamingCurrencies, is_trailer_fee : BOOLEAN, is_management_fee : BOOLEAN]

FnInit ==
    /\ fn_record \in NamingRecords
    /\ fn_df \in NamingFrames
    /\ fn_folder = None
    /\ fn_alias = None
    /\ fn_name = None
    /\ fn_pc = "get_mapping_info"

\* process_echeque, lines 243-244.
ResolveFolder ==
    /\ fn_pc = "get_mapping_info"
    /\ fn_folder' = get_mapping_info(fn_record.payee, fn_df)
    /\ fn_df' = frame_after_lookup(fn_record.payee, fn_df)
    /\ fn_pc' = "get_filename_alias"
    /\ UNCHANGED <<fn_record, fn_alias, fn_name, batch_vars, res_vars, ui_vars>>

\* process_echeque, line 248.
ResolveAlias ==
    /\ fn_pc = "get_filename_alias"
    /\ fn_alias' = get_filename_alias(fn_record.payee, fn_record.payer, fn_df)
    /\ fn_pc' = "generate_filename"
    /\ UNCHANGED <<fn_record, fn_df, fn_folder, fn_name, batch_vars, res_vars, ui_vars>>

\* process_echeque, lines 250-257.
GenerateFilename ==
    /\ fn_pc = "generate_filename"
    /\ fn_name' = generate_filename(fn_record.key_identifier, fn_record.payer, fn_alias,
                                    fn_record.currency, fn_record.is_trailer_fee,
                                    fn_record.is_management_fee)
    /\ fn_pc' = "return"
    /\ UNCHANGED <<fn_record, fn_df, fn_folder, fn_alias, batch_vars, res_vars, ui_vars>>

\* The other specifications name no record.
FnIdle ==
    /\ fn_record = [payee |-> <<>>, payer |-> <<>>, key_identifier |-> <<>>,
                    currency |-> <<>>, is_trailer_fee |-> FALSE, is_management_fee |-> FALSE]
    /\ fn_df = EmptyFrame
    /\ fn_folder = None
    /\ fn_alias = None
    /\ fn_name = None
    /\ fn_pc = "return"

FnNext ==
    \/ ResolveFolder
    \/ ResolveAlias
    \/ GenerateFilename

\* ------------------------------------------------------------------------
\* Mapping editor specification: app.py, the Payee Mapping page
\* ------------------------------------------------------------------------

\* The Payee and Teams_Folder cells the user types into the editor.
EditorPayees == { <<"A">>, <<"a"," ">>, <<"B">> }

EditorFolders == { <<"F">>, <<"G">> }

\* df.dropna(subset=['Payee'])
dropna(rows) == SelectSeq(rows, LAMBDA r : r.Payee # None)

\* df.drop_duplicates(subset=['Payee'], keep='last'): of the rows whose
\* Payee cells are equal, the last one stays.
RECURSIVE drop_duplicates(_)
drop_duplicates(rows) ==
    IF rows = <<>> THEN <<>>
    ELSE IF \E j \in 2..Len(rows) : rows[j].Payee = rows[1].Payee
         THEN drop_duplicates(Tail(rows))
         ELSE <<rows[1]>> \o drop_duplicates(Tail(rows))

\* What save_mapping_data writes with df.to_csv.
save_mapping_data(df) == drop_duplicates(dropna(df))

\* load_mapping_data: pd.read_csv without dtype reads an empty cell as NaN.
load_mapping_data(csv) ==
    [k \in 1..Len(csv) |->
        [Payee |-> IF csv[k].Payee = <<>> THEN None ELSE csv[k].Payee,
         Teams_Folder |-> csv[k].Teams_Folder]]

\* processing_component.load_mappings on the same file:
\* pd.read_csv(dtype=str).fillna("").
load_mappings_csv(csv) == Frame(csv)

EdInit ==
    /\ mapping_csv = <<>>
    /\ edited_df = <<>>

\* st.data_editor(num_rows="dynamic"): the user appends a row.
InsertRow ==
    /\ Len(edited_df) < MaxRows
    /\ \E payee \in EditorPayees, folder \in EditorFolders :
          edited_df' = Append(edited_df, [Payee |-> payee, Teams_Folder |-> folder])
    /\ UNCHANGED <<mapping_csv, app_vars, batch_vars, res_vars, fn_vars>>

\* st.data_editor: the user deletes a row.
DeleteRow ==
    /\ \E k \in 1..Len(edited_df) :
          edited_df' = [j \in 1..(Len(edited_df) - 1) |->
                           IF j < k THEN edited_df[j] ELSE edited_df[j + 1]]
    /\ UNCHANGED <<mapping_csv, app_vars, batch_vars, res_vars, fn_vars>>

\* "Save Changes to Mapping File": save_mapping_data(edited_df), then
\* st.rerun() shows the file as load_mapping_data reads it.
SaveChanges ==
    /\ mapping_csv' = save_mapping_data(edited_df)
    /\ edited_df' = load_mapping_data(save_mapping_data(edited_df))
    /\ UNCHANGED <<app_vars, batch_vars, res_vars, fn_vars>>

EdIdle ==
    /\ mapping_csv = <<>>
    /\ edited_df = <<>>

EdNext ==
    \/ InsertRow
    \/ DeleteRow
    \/ SaveChanges

\* The other specifications leave the application's session alone.
AppIdle ==
    /\ session_downloaded_files = <<>>
    /\ session_processed_files = <<>>
    /\ processed_filenames = {}
    /\ last_run = [files_to_process |-> <<>>, processed |-> {}, errors |-> {}]

UiIdle == EdIdle /\ AppIdle

EditorInit == EdInit /\ AppIdle /\ BatchIdle /\ ResIdle /\ FnIdle

SpecEditor == EditorInit /\ [][EdNext]_vars

\* The application's Process step (app.py). A downloaded file is represented
\* by its filename, a ProcessedResult by the original_filename it carries.
AppFilenames == { FILENAMES[k] : k \in 1..MaxDocs }

NewFiles(room) == UNION { [1..n -> AppFilenames] : n \in 1..room }

Filenames(files) == { files[k] : k \in 1..Len(files) }

\* load_from_db: the filenames and the results of the rows the database holds.
load_from_db == { rows \in UNION { [1..n -> AppFilenames] : n \in 0..MaxDocs } : \A m, n \in 1..Len(rows) : rows[m] = rows[n] => m = n }

AppInit ==
    /\ session_downloaded_files = <<>>
    /\ \E files_data \in load_from_db :
        /\ session_processed_files = files_data
        /\ processed_filenames = Filenames(files_data)
    /\ last_run = [files_to_process |-> <<>>, processed |-> {}, errors |-> {}]

\* "Add Uploaded Files": the chosen files are appended to the download list.
AddUploadedFiles ==
    /\ Len(session_downloaded_files) < MaxDocs
    /\ \E new_files \in NewFiles(MaxDocs - Len(session_downloaded_files)) :
        session_downloaded_files' = session_downloaded_files \o new_files
    /\ UNCHANGED <<session_processed_files, processed_filenames, last_run>>
    /\ UNCHANGED <<ed_vars, batch_vars, res_vars, fn_vars>>

files_to_process(skip_processed) == SelectSeq(session_downloaded_files, LAMBDA file : ~(skip_processed /\ file \in processed_filenames))

RECURSIVE append_new(_, _)
append_new(files, results) == IF results = <<>> THEN files ELSE append_new(IF Head(results) \in Filenames(files) THEN files ELSE Append(files, Head(results)), Tail(results))

\* "Process e-Cheques": process_echeques returns the results and the errors of
\* the files it was given; the results are added to the session and saved,
\* and the filenames of the files it was given are marked as processed. A
\* failing save_to_db leaves the handler before the filenames are marked.
ProcessEcheques ==
    /\ session_downloaded_files # <<>>
    /\ \E skip_processed \in BOOLEAN :
        LET todo == files_to_process(skip_processed) IN
        /\ todo # <<>>
        /\ \E outcome \in [1..Len(todo) -> {"result", "error"}], saved \in BOOLEAN :
            LET results == SelectSeq([k \in 1..Len(todo) |-> IF outcome[k] = "result" THEN todo[k] ELSE ""], LAMBDA f : f # "")
                failed == { todo[k] : k \in { n \in 1..Len(todo) : outcome[n] = "error" } }
            IN
            /\ saved \/ results # <<>>
            /\ session_processed_files' = append_new(session_processed_files, results)
            /\ processed_filenames' = IF saved THEN processed_filenames \cup Filenames(todo) ELSE processed_filenames
            /\ last_run' = [files_to_process |-> todo, processed |-> Filenames(results), errors |-> failed]
    /\ UNCHANGED session_downloaded_files
    /\ UNCHANGED <<ed_vars, batch_vars, res_vars, fn_vars>>

\* "Clear All Files".
ClearAllFiles ==
    /\ session_downloaded_files' = <<>>
    /\ session_processed_files' = <<>>
    /\ processed_filenames' = {}
    /\ UNCHANGED last_run
    /\ UNCHANGED <<ed_vars, batch_vars, res_vars, fn_vars>>

AppNext ==
    \/ AddUploadedFiles
    \/ ProcessEcheques
    \/ ClearAllFiles

ProcessInit == AppInit /\ EdIdle /\ BatchIdle /\ ResIdle /\ FnIdle

SpecApp == ProcessInit /\ [][AppNext]_vars

NamingInit == FnInit /\ BatchIdle /\ ResIdle /\ UiIdle

SpecNaming == NamingInit /\ [][FnNext]_vars

ResolverInit == ResInit /\ BatchIdle /\ FnIdle /\ UiIdle

SpecResolver == ResolverInit /\ [][ResNext]_vars

Init == BatchInit /\ ResIdle /\ FnIdle /\ UiIdle

Next == BatchNext

Spec == Init /\ [][Next]_vars

\* ------------------------------------------------------------------------
\* Properties of the batch
\* ------------------------------------------------------------------------

\* The entries of the two lists that carry the filename of document k.
ResultsOf(k) ==
    {j \in 1..Len(processed_files) : processed_files[j].original_filename = FILENAMES[k]}

ErrorsOf(k) == {j \in 1..Len(errors) : errors[j].filename = FILENAMES[k]}

\* The network calls made for the current document, in order.
Calls == SelectSeq(doc_events, LAMBDA e : e.ev = "call")

\* The positions of an event in the batch history.
Positions(ev, k) ==
    {n \in 1..Len(batch_events) : batch_events[n] = BatchEvent(ev, k)}

\* The frame load_mappings returned at the start of the batch.
loaded_df == load_mappings(mapping_file).df

\* C1: when process_echeques returns, len(results) + len(errors) is the
\* number of input documents, and every document has exactly one entry, in
\* exactly one of the two lists.
C1_PartitionIsExhaustive ==
    pc = "done" =>
        /\ Len(processed_files) + Len(errors) = Len(downloaded_files)
        /\ \A k \in 1..Len(downloaded_files) :
               Cardinality(ResultsOf(k)) + Cardinality(ErrorsOf(k)) = 1

\* A full batch has returned with a result and an error.
C1_Witness ==
    /\ pc = "done"
    /\ Len(downloaded_files) = MaxDocs
    /\ processed_files # <<>>
    /\ errors # <<>>

\* C2: a failure of one document, at whatever stage, becomes one error
\* entry with that document's filename; process_echeques goes on to every
\* later document and returns; a successful document's result is what its
\* own reply and the loaded table give, whatever happened to its siblings.
C2_FailuresAreIsolated ==
    /\ pc \in {"start", "loop", "notify", "throttle", "rasterize", "credential", "polite",
               "attempt", "raised", "respond", "collect", "done"}
    /\ \A n \in 1..Len(returned) :
           ~returned[n].ret.ok =>
               \E j \in ErrorsOf(returned[n].doc) : errors[j].error = returned[n].ret.error
    /\ \A k \in 1..i : Cardinality(ResultsOf(k)) + Cardinality(ErrorsOf(k)) = 1
    /\ pc = "done" => i = Len(downloaded_files)
    /\ \A j \in 1..Len(processed_files) :
           LET r == processed_files[j]
               d == r.original_data
               own == Reply("object", FALSE, d.present, d.payee, d.key_identifier, d.payer,
                            d.currency, d.is_trailer_fee, d.is_management_fee)
               alone == process_response(own, r.pdf_data, loaded_df)
           IN  /\ alone.ok
               /\ r = [alone.result EXCEPT !.original_filename = r.original_filename]

\* The first document failed in the model call, the second one succeeded
\* with a payee the table maps, and the batch has returned.
C2_Witness ==
    /\ pc = "done"
    /\ Len(errors) = 1 /\ errors[1].filename = FILENAMES[1]
    /\ errors[1].error.kind = "api_rate_limit"
    /\ Len(processed_files) = 1 /\ processed_files[1].original_filename = FILENAMES[2]
    /\ processed_files[1].original_data.Teams_Folder # Uncategorized

\* C3: N-1 retryable failures followed by a success, N <= 5, give that
\* success on exactly the Nth network call: the response is taken when the
\* Nth call returns, no call follows it, and fewer than 5 retryable
\* failures never end the sequence.
C3_SuccessOnNthAttempt ==
    /\ pc = "respond" =>
           /\ Len(Calls) = attempt_number
           /\ attempt_number \in 1..MAX_RETRIES
           /\ \A k \in 1..(Len(Calls) - 1) : Calls[k].what = "APIRateLimitError"
           /\ Calls[Len(Calls)].what = "returned"
           /\ doc_events[Len(doc_events)] = Calls[Len(Calls)]
           /\ raw_response \in Replies
    /\ (pc \in {"collect", "loop", "done"} /\ Calls # <<>>
            /\ Calls[Len(Calls)].what = "returned") =>
           /\ doc_events[Len(doc_events)] = Calls[Len(Calls)]
           /\ raw_response \in Replies
           /\ pc = "collect" =>
                  ret = process_response(raw_response, file_info.content, mappings_df)
    /\ (pc \in {"collect", "loop", "done"} /\ Calls # <<>>
            /\ Calls[Len(Calls)].what = "APIRateLimitError") =>
           Len(Calls) = MAX_RETRIES

\* The fifth call returned text after four retryable failures.
C3_Witness ==
    /\ pc = "respond"
    /\ attempt_number = MAX_RETRIES
    /\ Len(SelectSeq(doc_events, LAMBDA e : e.ev = "wait")) = MAX_RETRIES - 1

\* C4: at most 5 network calls are made for one document; when every
\* attempt fails with the retryable condition the fifth call is the last
\* and the document's error is the rate-limit error naming 5 retries.
C4_AtMostFiveCalls ==
    /\ Len(Calls) <= MAX_RETRIES
    /\ \A k \in 1..Len(Calls) : Calls[k].n = k
    /\ (pc \in {"collect", "loop", "done"} /\ Calls # <<>>
            /\ \A k \in 1..Len(Calls) : Calls[k].what = "APIRateLimitError") =>
           /\ Len(Calls) = 5
           /\ doc_events[Len(doc_events)] = Calls[5]
           /\ ~ret.ok
           /\ ret.error.kind = "api_rate_limit"
           /\ ret.error.retries = 5
           /\ ret.error.detail = last_exception.message

\* Five calls failed with the retryable condition and the document's error is set.
C4_Witness ==
    /\ pc = "collect"
    /\ Len(Calls) = 5
    /\ ret.error.kind = "api_rate_limit"

\* C5: a model-call failure that is not the retryable condition ends the
\* attempts: nothing (no wait, no call) follows the call that raised it,
\* it being the first call leaves exactly one call, and the document's
\* error is the unexpected-API error with the underlying message.
C5_OtherFailuresAreNotRetried ==
    \A k \in 1..Len(doc_events) :
        (doc_events[k].ev = "call" /\ doc_events[k].what = "Exception") =>
            /\ k = Len(doc_events)
            /\ Len(Calls) = doc_events[k].n
            /\ ~is_rate_limit_message(last_exception.message)
            /\ pc \in {"raised", "collect", "loop", "done"}
            /\ pc # "raised" =>
                   /\ ~ret.ok
                   /\ ret.error.kind = "api_unexpected"
                   /\ ret.error.detail = last_exception.message

\* The first call failed with a server error and the document's error is set.
C5_Witness ==
    /\ pc = "collect"
    /\ Len(Calls) = 1
    /\ Calls[1].what = "Exception"
    /\ ret.error = Err("api_unexpected", <<"500", "Internal error">>)

\* What happened to the current document inside call_gemini_api beyond the
\* key check.
ApiActivity == SelectSeq(doc_events, LAMBDA e : e.ev \in {"configure", "sleep", "call", "wait"})

\* C6 as stated: with no API key there is no configuration, no courtesy
\* delay and no network call, and every document process_echeque is given
\* yields the missing-credential error.
C6_NoKeyAlwaysMissingCredential ==
    gemini_api_key = "" =>
        /\ ApiActivity = <<>>
        /\ \A n \in 1..Len(returned) : returned[n].ret.error.kind = "missing_key"

\* C6, amended: with no API key there is no configuration, no courtesy
\* delay and no network call, and no result; a document whose
\* rasterization succeeded yields the missing-credential error, one whose
\* rasterization failed yields the rasterization error.
C6_NoKeyNoCall ==
    gemini_api_key = "" =>
        /\ ApiActivity = <<>>
        /\ processed_files = <<>>
        /\ \A n \in 1..Len(returned) :
               LET content == downloaded_files[returned[n].doc].content
               IN  /\ ~returned[n].ret.ok
                   /\ pdf_to_image(content).error = NoError =>
                          returned[n].ret.error = Err("missing_key", <<>>)
                   /\ pdf_to_image(content).error # NoError =>
                          returned[n].ret.error = pdf_to_image(content).error

\* Without a key, a rasterized document has ended with the
\* missing-credential error.
C6_Witness ==
    /\ gemini_api_key = ""
    /\ pc = "loop"
    /\ returned # <<>>
    /\ returned[Len(returned)].ret.error.kind = "missing_key"
    /\ image_bytes = "png"

\* C7: a batch of N >= 1 documents incurs exactly N-1 throttling delays:
\* one before each document other than the first, none before the first.
C7_ThrottleBetweenDocuments ==
    pc = "done" =>
        /\ Cardinality(Positions("throttle", 1)) = 0
        /\ \A k \in 2..Len(downloaded_files) : Cardinality(Positions("throttle", k)) = 1
        /\ Len(downloaded_files) >= 1 =>
               Len(SelectSeq(batch_events, LAMBDA e : e.ev = "throttle"))
                   = Len(downloaded_files) - 1

\* <<a, b>> stands for a/b.
InUnitInterval(f) == f[2] > 0 /\ 0 <= f[1] /\ f[1] <= f[2]

AtMost(f, g) == f[1] * g[2] <= g[1] * f[2]

\* The part of C8 about order: with a sink, the notification for document
\* k comes after document k-1 got its entry and before anything is done
\* for document k; notifications come in document order.
NotifiedInOrder ==
    progress_callback # "absent" =>
        /\ \A n \in 1..Len(notifications) :
               /\ notifications[n].doc = n
               /\ notifications[n].filename = downloaded_files[n].filename
        /\ \A k \in 1..Len(downloaded_files) :
               \A p \in Positions("throttle", k) \cup Positions("process", k)
                        \cup Positions("entry", k) :
                   \E q \in Positions("notify", k) :
                       /\ q < p
                       /\ \A e \in Positions("entry", k - 1) : e < q
        /\ \A k \in 1..Len(downloaded_files) : Cardinality(Positions("notify", k)) <= 1
        /\ pc = "done" =>
               \A k \in 1..Len(downloaded_files) : Cardinality(Positions("notify", k)) = 1

\* C8 as stated: with a sink, notifications come in order, before the
\* document's processing and after the previous document's end, and each
\* carries a fraction within [0, 1], non-decreasing across the batch.
C8_EveryNotificationCarriesFraction ==
    progress_callback # "absent" =>
        /\ NotifiedInOrder
        /\ \A n \in 1..Len(notifications) :
               /\ notifications[n].fraction # NoFraction
               /\ InUnitInterval(notifications[n].fraction)
        /\ \A n \in 1..(Len(notifications) - 1) :
               AtMost(notifications[n].fraction, notifications[n + 1].fraction)

\* C8, amended: with a sink, notifications come in order, before the
\* document's processing and after the previous document's end; a sink
\* called with two arguments gets with each the fraction (i+1)/N, within
\* [0, 1] and non-decreasing; a sink that takes one argument gets the
\* message alone.
C8_NotificationsInOrder ==
    progress_callback # "absent" =>
        /\ NotifiedInOrder
        /\ \A n \in 1..Len(notifications) :
               IF progress_callback = "one_argument"
               THEN notifications[n].fraction = NoFraction
               ELSE /\ notifications[n].fraction = <<n, Len(downloaded_files)>>
                    /\ InUnitInterval(notifications[n].fraction)
        /\ progress_callback # "one_argument" =>
               \A n \in 1..(Len(notifications) - 1) :
                   AtMost(notifications[n].fraction, notifications[n + 1].fraction)

\* A two-argument sink has been notified of every document of a full
\* batch, and the batch has returned.
C8_Witness ==
    /\ pc = "done"
    /\ progress_callback = "two_arguments"
    /\ Len(notifications) = MaxDocs
    /\ Len(returned) = MaxDocs

\* C9: whatever the progress sink does, every document is sent through
\* process_echeque and the two lists hold exactly what it returned for
\* each document, in order.
C9_SinkIsObservational ==
    pc = "done" =>
        /\ Len(returned) = Len(downloaded_files)
        /\ \A n \in 1..Len(returned) : returned[n].doc = n
        /\ Len(errors) = Len(SelectSeq(returned, LAMBDA r : ~r.ret.ok))
        /\ errors =
               [n \in 1..Len(errors) |->
                   LET failed == SelectSeq(returned, LAMBDA r : ~r.ret.ok)
                   IN  [filename |-> FILENAMES[failed[n].doc], error |-> failed[n].ret.error]]
        /\ Len(processed_files) = Len(SelectSeq(returned, LAMBDA r : r.ret.ok))

\* C10: two payee strings that are equal after normalization resolve to the
\* same routing target, whichever is looked up first, and every table entry
\* is compared in its normalized form.
C10_SameTargetForEquivalentPayees ==
    /\ res_done = {1, 2} => res_folder[1] = res_folder[2]
    /\ "Standardized_Name" \in res_df.columns =>
           \A k \in 1..Len(res_df.rows) :
               res_df.Standardized_Name[k] = NormalForm(res_df.rows[k].Payee)

\* Two differently spelled payees have both been resolved to a folder of the table.
C10_Witness ==
    /\ res_done = {1, 2}
    /\ res_payee[1] # res_payee[2]
    /\ res_folder[1] # Uncategorized
    /\ \E k \in 1..Len(res_df.rows) : res_df.rows[k].Payee \notin {res_payee[1], res_payee[2]}

\* ------------------------------------------------------------------------
\* Properties of the mapping lookup inside a batch
\* ------------------------------------------------------------------------

\* C11: the lookup never fails for want of a mapping: a record that passed
\* validation always gets a result; when the loaded table is empty or has
\* no entry whose normalized Payee equals the normalized payee of the
\* record, its folder is "Uncategorized"; when the mapping file cannot be
\* read the batch goes on with an empty table, deals with every document,
\* and every result's folder is "Uncategorized".
C11_UncategorizedWhenNoMapping ==
    /\ \A j \in 1..Len(processed_files) :
           LET d == processed_files[j].original_data
           IN  (\A k \in 1..Len(loaded_df.rows) :
                    NormalForm(loaded_df.rows[k].Payee) # NormalForm(d.payee))
                   => d.Teams_Folder = Uncategorized
    /\ (pc = "collect" /\ Calls # <<>> /\ Calls[Len(Calls)].what = "returned"
            /\ raw_response.form = "object"
            /\ missing_fields(raw_response) = <<>>) => ret.ok
    /\ (mapping_file.state \in {"absent", "unreadable"} /\ pc # "start") =>
           /\ mappings_df.rows = <<>>
           /\ \A j \in 1..Len(processed_files) :
                  processed_files[j].original_data.Teams_Folder = Uncategorized
    /\ mapping_file.state = "unreadable" =>
           /\ pc # "start" => mapping_error.kind = "mapping_load"
           /\ pc = "done" =>
                  /\ i = Len(downloaded_files)
                  /\ Len(processed_files) + Len(errors) = Len(downloaded_files)

\* The mapping file could not be read, the batch has returned, and a payee
\* the file would have mapped got a result.
C11_Witness ==
    /\ mapping_file.state = "unreadable"
    /\ pc = "done"
    /\ \E j \in 1..Len(processed_files) :
           /\ processed_files[j].original_data.payee = ReplyWmc.payee
           /\ processed_files[j].original_data.Teams_Folder = Uncategorized

\* ------------------------------------------------------------------------
\* Properties of the naming of one record
\* ------------------------------------------------------------------------

\* The payee as the record spells it ("" for a null payee).
Verbatim(payee) == IF payee = None THEN <<>> ELSE payee

\* The payer is the trust-account identity: the constant, in any case and
\* spacing.
IsTrustAccount(payer) == NormalForm(payer) = NormalForm(TRUST_ACCOUNT_PAYER)

\* C12: when the payer is the trust-account identity the alias is the
\* payee exactly as the record spells it, even when the table maps the
\* payee; for any other payer the alias is the resolved folder when the
\* payee is categorized and the payee as spelled when it resolves to
\* "Uncategorized".
C12_AliasKeepsTrustPayee ==
    fn_pc \in {"generate_filename", "return"} =>
        /\ IsTrustAccount(fn_record.payer) => fn_alias = Verbatim(fn_record.payee)
        /\ ~IsTrustAccount(fn_record.payer) =>
               /\ fn_folder # Uncategorized => fn_alias = fn_folder
               /\ fn_folder = Uncategorized => fn_alias = Verbatim(fn_record.payee)

\* The trust account pays a payee the table maps to a folder spelled
\* otherwise, and the alias is the payee.
C12_Witness ==
    /\ fn_pc = "return"
    /\ fn_record.payer = TRUST_ACCOUNT_PAYER
    /\ fn_folder \notin {Uncategorized, fn_record.payee}
    /\ fn_alias = fn_record.payee

\* The suffix the naming rules give: "_T" for a trailer fee; else " MF" for
\* a management fee of one of the known management-fee aliases; else none.
RuleSuffix(alias, is_trailer_fee, is_management_fee) ==
    IF is_trailer_fee THEN <<"_","T">>
    ELSE IF is_management_fee /\ NormalForm(alias) \in MANAGEMENT_FEE_ALIASES
         THEN <<" ","M","F">>
         ELSE <<>>

PdfExtension == <<".","p","d","f">>

\* The text the code renders for a value inside a filename.
Rendered(x) == IF x = None THEN <<"N","o","n","e">> ELSE x

\* The name the record's template gives before the suffix and ".pdf",
\* with the payee already cleaned for a filename.
TemplateStem(payer, key, currency, payee) ==
    IF payer = WMC_PAYER
    THEN Rendered(key) \o <<" ","W","M","C","-">> \o payee
    ELSE IF payer = TRUST_ACCOUNT_PAYER
         THEN Rendered(currency) \o <<" ">> \o Rendered(key) \o <<" ">> \o payee
         ELSE payee \o <<"_">> \o Rendered(key) \o <<"_">> \o Rendered(currency)

EndsWith(s, tail) ==
    Len(s) >= Len(tail) /\ SubSeq(s, Len(s) - Len(tail) + 1, Len(s)) = tail

\* C13: the suffix is "_T" whenever is_trailer_fee is true, whatever
\* is_management_fee and the alias are; it is " MF" only when
\* is_trailer_fee is false, is_management_fee is true and the normalized
\* alias is a known management-fee alias; otherwise there is none; in all
\* three templates the suffix stands immediately before ".pdf".
C13_TrailerSuffixDominates ==
    fn_pc = "return" =>
        LET r == fn_record
            suffix == RuleSuffix(fn_alias, r.is_trailer_fee, r.is_management_fee)
            plain == generate_filename(r.key_identifier, r.payer, fn_alias, r.currency,
                                       FALSE, FALSE)
            stem == SubSeq(plain, 1, Len(plain) - Len(PdfExtension))
        IN  /\ EndsWith(plain, PdfExtension)
            /\ fn_name = stem \o suffix \o PdfExtension
            /\ r.is_trailer_fee => EndsWith(fn_name, <<"_","T",".","p","d","f">>)
            /\ suffix = <<" ","M","F">> <=>
                   /\ ~r.is_trailer_fee
                   /\ r.is_management_fee
                   /\ NormalForm(fn_alias) \in MANAGEMENT_FEE_ALIASES
            /\ (~r.is_trailer_fee /\ ~r.is_management_fee) => fn_name = plain

\* Both flags are set for a management-fee alias and the name ends in
\* "_T.pdf".
C13_Witness ==
    /\ fn_pc = "return"
    /\ fn_record.is_trailer_fee
    /\ fn_record.is_management_fee
    /\ NormalForm(fn_alias) \in MANAGEMENT_FEE_ALIASES
    /\ EndsWith(fn_name, <<"_","T",".","p","d","f">>)

\* C14: the template is chosen by the payer: the WMC payer gives
\* "{key} WMC-{payee}{suffix}.pdf", the trust-account payer gives
\* "{currency} {key} {payee}{suffix}.pdf", every other payer gives
\* "{payee}_{key}_{currency}{suffix}.pdf", {payee} being the alias cleaned
\* for a filename; the trust account, HKD, 123456, "Acme Co", trailer fee
\* give "HKD 123456 Acme Co_T.pdf", and the WMC payer, 987654, alias
\* "Vendor X", no flag give "987654 WMC-Vendor X.pdf".
C14_TemplateByPayer ==
    fn_pc = "return" =>
        LET r == fn_record
            payee == sanitize_filename(fn_alias)
            suffix == RuleSuffix(fn_alias, r.is_trailer_fee, r.is_management_fee)
        IN  /\ fn_name = TemplateStem(r.payer, r.key_identifier, r.currency, payee)
                             \o suffix \o PdfExtension
            /\ (r.payer = TRUST_ACCOUNT_PAYER /\ r.currency = <<"H","K","D">>
                    /\ r.key_identifier = <<"1","2","3","4","5","6">>
                    /\ fn_alias = <<"A","c","m","e"," ","C","o">> /\ r.is_trailer_fee) =>
                   fn_name = <<"H","K","D"," ","1","2","3","4","5","6"," ",
                               "A","c","m","e"," ","C","o","_","T",".","p","d","f">>
            /\ (r.payer = WMC_PAYER /\ r.key_identifier = <<"9","8","7","6","5","4">>
                    /\ fn_alias = <<"V","e","n","d","o","r"," ","X">>
                    /\ ~r.is_trailer_fee /\ ~r.is_management_fee) =>
                   fn_name = <<"9","8","7","6","5","4"," ","W","M","C","-",
                               "V","e","n","d","o","r"," ","X",".","p","d","f">>

\* The WMC payer's record of the second scenario has been named, its alias
\* resolved from the table.
C14_Witness ==
    /\ fn_pc = "return"
    /\ fn_record.payer = WMC_PAYER
    /\ fn_record.key_identifier = <<"9","8","7","6","5","4">>
    /\ fn_record.payee # fn_alias
    /\ fn_alias = <<"V","e","n","d","o","r"," ","X">>
    /\ ~fn_record.is_trailer_fee /\ ~fn_record.is_management_fee

\* ------------------------------------------------------------------------
\* Properties of the validation of the model's reply
\* ------------------------------------------------------------------------

\* The model returned text for the current document and process_echeque
\* has dealt with it.
ReplyHandled ==
    /\ pc = "collect"
    /\ Calls # <<>>
    /\ Calls[Len(Calls)].what = "returned"

\* C15: when the parsed reply lacks any of the seven required fields, the
\* document fails with the incomplete-response error, whose message lists
\* the missing required fields, all of them and no other, and there is no
\* result; a reply that lacks only payer lists payer.
C15_MissingFieldsAreListed ==
    (ReplyHandled /\ ~json_decode_fails(clean_response(raw_response))
         /\ missing_fields(clean_response(raw_response)) # <<>>) =>
        /\ ~ret.ok
        /\ ret.result = NullResult
        /\ ret.error.kind = "missing_fields"
        /\ ret.error.detail =
               SelectSeq(required_fields, LAMBDA f : f \notin raw_response.present)
        /\ raw_response.present = AllRequired \ {"payer"} => ret.error.detail = <<"payer">>

\* ------------------------------------------------------------------------
\* Properties of the retry policy's timing
\* ------------------------------------------------------------------------

\* The last call got an empty response.
EmptyResponseRaised ==
    /\ pc = "raised"
    /\ last_exception.message = <<"Empty response from API">>

\* The last call got a rate-limit error.
RateLimitRaised ==
    /\ pc = "raised"
    /\ Head(last_exception.message) = "Rate limit exceeded:"

\* What the retry policy does next for the retryable condition: before
\* the fifth attempt a backoff wait and another attempt, after the fifth
\* the rate-limit error.
RetriedAsRateLimit ==
    IF attempt_number < 5
    THEN /\ pc' = "attempt"
         /\ doc_events' =
                Append(doc_events, DocEvent("wait", <<1, 2, 4, 8>>[attempt_number], ""))
         /\ ret' = ret
    ELSE /\ pc' = "collect"
         /\ ~ret'.ok
         /\ ret'.error.kind = "api_rate_limit"
         /\ ret'.error.retries = 5
         /\ ret'.error.detail = last_exception.message
         /\ doc_events' = doc_events

\* C16: an empty response is the retryable condition: it raises the same
\* exception type as a rate-limit error, it is followed by the same
\* backoff and another attempt, and an empty response to the fifth attempt
\* ends the document with the rate-limit error, not the unexpected-API
\* error.
C16_EmptyResponseIsRetryable ==
    /\ [](EmptyResponseRaised => last_exception.raised = "APIRateLimitError")
    /\ [](RateLimitRaised => last_exception.raised = "APIRateLimitError")
    /\ [][EmptyResponseRaised => RetriedAsRateLimit]_vars
    /\ [][RateLimitRaised => RetriedAsRateLimit]_vars

\* The fifth attempt got an empty response and the document's error is the
\* rate-limit error.
C16_Witness ==
    /\ pc = "collect"
    /\ attempt_number = 5
    /\ last_exception.message = <<"Empty response from API">>
    /\ ret.error = RateLimitErr(<<"Empty response from API">>)

\* The backoff waits taken for the current document, in order.
Waits == SelectSeq(doc_events, LAMBDA e : e.ev = "wait")

\* C17: the backoff waits of one document are 1, 2, 4, 8 in this order
\* (the first after the first failed attempt, doubling after each further
\* one), each wait stands between a failed attempt and the next attempt, no
\* wait exceeds 32, and no wait follows the final failed attempt.
C17_BackoffDoubles ==
    /\ Len(Waits) <= 4
    /\ \A k \in 1..Len(Waits) :
           /\ Waits[k].n = <<1, 2, 4, 8>>[k]
           /\ Waits[k].n <= 32
    /\ \A p \in 1..Len(doc_events) :
           doc_events[p].ev = "wait" =>
               /\ p > 1
               /\ doc_events[p - 1].ev = "call"
               /\ doc_events[p - 1].what = "APIRateLimitError"
               /\ doc_events[p - 1].n < 5
               /\ p < Len(doc_events) => doc_events[p + 1].ev = "call"
               /\ p = Len(doc_events) => pc = "attempt"
    /\ (pc \in {"collect", "loop", "done"} /\ Calls # <<>>) =>
           /\ Len(Waits) = Len(Calls) - 1
           /\ doc_events[Len(doc_events)].ev = "call"
    /\ \A k \in 1..8 : wait_exponential(k) <= 32

\* Five attempts failed: the four waits were taken and nothing followed
\* the fifth failure.
C17_Witness ==
    /\ pc = "collect"
    /\ Len(Waits) = 4
    /\ Len(Calls) = 5
    /\ Calls[5].what = "APIRateLimitError"
    /\ doc_events[Len(doc_events)] = Calls[5]

\* The event that stands immediately before position p of the document's
\* history.
Before(p) == IF p > 1 THEN doc_events[p - 1] ELSE DocEvent("none", 0, "")

CourtesySleep == DocEvent("sleep", POLITE_DELAY, "")

\* C18 as stated: every network call, each retry attempt included, is
\* immediately preceded by the fixed courtesy delay.
C18_CourtesyDelayBeforeEveryCall ==
    \A p \in 1..Len(doc_events) :
        doc_events[p].ev = "call" => Before(p) = CourtesySleep

\* C18, amended: the fixed courtesy delay is taken once for a document,
\* immediately before its first network call; each retry attempt is
\* immediately preceded by its backoff wait, not by the courtesy delay.
C18_CourtesyDelayBeforeFirstCall ==
    /\ Len(SelectSeq(doc_events, LAMBDA e : e.ev = "sleep")) <= 1
    /\ \A p \in 1..Len(doc_events) :
           /\ doc_events[p].ev = "call" =>
                  IF doc_events[p].n = 1
                  THEN Before(p) = CourtesySleep
                  ELSE /\ Before(p).ev = "wait"
                       /\ Before(p) # CourtesySleep
           /\ doc_events[p].ev = "sleep" =>
                  /\ doc_events[p] = CourtesySleep
                  /\ p < Len(doc_events) =>
                         (doc_events[p + 1].ev = "call" /\ doc_events[p + 1].n = 1)
                  /\ p = Len(doc_events) => pc = "attempt"

\* A document's second attempt has been made, after one courtesy delay and
\* one backoff wait.
C18_Witness ==
    /\ Len(Calls) = 2
    /\ doc_events[Len(doc_events)] = Calls[2]
    /\ Before(Len(doc_events)).ev = "wait"
    /\ \E p \in 1..Len(doc_events) :
           doc_events[p] = Calls[1] /\ Before(p) = CourtesySleep

\* ------------------------------------------------------------------------
\* Properties of the shared table and of the records that reach a result
\* ------------------------------------------------------------------------

\* C19: the mapping table is loaded once, before the first document (also
\* when there is none), and never changed afterwards: after every lookup
\* and every document its rows and its columns are those load_mappings
\* returned.
C19_TableNeverMutated ==
    /\ pc = "start" => (i = 0 /\ returned = <<>> /\ batch_events = <<>>)
    /\ pc # "start" =>
           /\ mappings_df.rows = loaded_df.rows
           /\ mappings_df.columns = loaded_df.columns
           /\ mappings_df = loaded_df

\* C20: every record that reaches a result has its currency among CNY,
\* USD, HKD, EUR, GBP: a reply with another currency gives no result and no
\* filename.
C20_CurrencyIsKnownCode ==
    /\ \A j \in 1..Len(processed_files) :
           processed_files[j].original_data.currency \in CURRENCY_CODES
    /\ (ReplyHandled /\ raw_response.form = "object"
            /\ "currency" \in raw_response.present
            /\ raw_response.currency \notin CURRENCY_CODES) =>
           /\ ~ret.ok
           /\ ret.result.generated_filename = <<>>

\* ------------------------------------------------------------------------
\* Properties of the application around the core
\* ------------------------------------------------------------------------

\* The rows of the saved table a lookup of payee matches.
MatchingRows(payee) ==
    LET d == with_standardized_name(load_mappings_csv(mapping_csv))
    IN  {k \in 1..Len(d.rows) : d.Standardized_Name[k] = standardize(payee)}

\* C21: after any sequence of editor saves the normalized Payee values of
\* the saved table are unique (of the rows inserted with the same
\* normalized Payee only the last is kept), so that a lookup never has
\* more than one matching row.
C21_SavedPayeesAreUnique ==
    /\ \A j, k \in 1..Len(mapping_csv) :
           j # k => NormalForm(mapping_csv[j].Payee) # NormalForm(mapping_csv[k].Payee)
    /\ \A payee \in EditorPayees : Cardinality(MatchingRows(payee)) <= 1

\* The name is the one the trust-account template gives.
TrustTemplateSelected ==
    fn_name = Rendered(fn_record.currency) \o <<" ">> \o Rendered(fn_record.key_identifier)
                  \o <<" ">> \o sanitize_filename(fn_alias)
                  \o RuleSuffix(fn_alias, fn_record.is_trailer_fee, fn_record.is_management_fee)
                  \o PdfExtension

\* C22: for a payee the table maps to a folder spelled otherwise, the alias
\* is the payee as spelled (the payer was taken for the trust account) if
\* and only if the name follows the trust-account template, for every
\* payer, those that differ from the constant in case or spacing included.
C22_PayerIdentityIsConsistent ==
    (fn_pc = "return" /\ fn_folder \notin {Uncategorized, Verbatim(fn_record.payee)}) =>
        (fn_alias = Verbatim(fn_record.payee) <=> TrustTemplateSelected)

Contains(s, chars) == \E k \in 1..Len(s) : s[k] \in chars

\* C23: the generated filename holds none of the characters
\* / * ? : " < > | and ends in ".pdf", whatever key identifier, currency,
\* payer and payee the reply carried.
C23_FilenameHasNoInvalidCharacter ==
    fn_pc = "return" =>
        /\ EndsWith(fn_name, PdfExtension)
        /\ ~Contains(fn_name, {"/", "*", "?", ":", "\"", "<", ">", "|"})

\* C24: a Process run marks a filename as processed only if the run returned
\* a result for it; a file of the run that only ended in the errors list is
\* still unmarked after the run unless it was marked before.
C24_OnlyResultsAreMarkedProcessed ==
    [][ProcessEcheques => \A f \in processed_filenames' \ processed_filenames : f \in last_run'.processed]_vars

============================================================================
